---------------------------- MODULE Spec2Model ----------------------------
(***************************************************************************)
(* The nearby-job search of the scheduling assistant.                      *)
(*                                                                         *)
(* Several implementations of the search coexist in the repository:        *)
(*   "single"  GET /api/calendar/need-to-book?calendarId=..  (one          *)
(*             calendar, targets chosen by title, driving distance)        *)
(*   "cross"   GET /api/calendar/need-to-book  (targets are the events of  *)
(*             the calendar named "need to book", candidates come from     *)
(*             every other calendar, driving distance)                     *)
(*   "search"  POST /api/calendar/need-to-book/test  (target and pool are  *)
(*             in the request body, geocode + haversine, time fallback)    *)
(*   "searchOld"  the first POST handler of the same file: the same        *)
(*             search with an estimate of 5 km per day and no warning      *)
(* and the two calendar endpoints the pages read:                          *)
(*   "events"     GET /api/calendar/events?calendarId=..                   *)
(*   "calendars"  GET /api/calendar/calendars                              *)
(*                                                                         *)
(* PageSpec is the page that calls the search (fetchNeedToBookEvents of    *)
(* need-to-book/page.tsx, with several calls in flight), RedirectSpec the  *)
(* redirect callback of the sign-in (lib/auth.ts).                         *)
(*                                                                         *)
(* Units.  Instants are whole hours since the epoch.  Distances are held   *)
(* in thirds of a metre (UnitsPerKm = 3000), the coarsest unit in which    *)
(* both "metres / 1000" of the distance matrix and "dayDiff * 10" km of    *)
(* the time estimate are exact integers for whole metres and whole hours.  *)
(* Strings the code inspects (titles, locations, calendar names) are       *)
(* sequences of one-character strings, so that toLowerCase, includes and   *)
(* trim are computed and not assumed.                                      *)
(***************************************************************************)
EXTENDS Integers, Sequences, FiniteSets, TLC

\* ------------------------------------------------------------------ bounds
\* Largest number of events the account holds in one run.
MaxEvents == 3

\* ----------------------------------------------------------------- strings
\* An absent (undefined) optional string field.
Absent == <<"<undefined>">>

UpperChars == <<"A","B","C","D","E","F","G","H","I","J","K","L","M",
                "N","O","P","Q","R","S","T","U","V","W","X","Y","Z">>
LowerChars == <<"a","b","c","d","e","f","g","h","i","j","k","l","m",
                "n","o","p","q","r","s","t","u","v","w","x","y","z">>

\* String.prototype.toLowerCase on one character.
ToLowerChar(c) ==
  IF \E i \in 1..Len(UpperChars) : UpperChars[i] = c
    THEN LowerChars[CHOOSE i \in 1..Len(UpperChars) : UpperChars[i] = c]
    ELSE c

\* String.prototype.toLowerCase.
ToLowerCase(s) == [i \in 1..Len(s) |-> ToLowerChar(s[i])]

\* String.prototype.includes.
Includes(s, sub) ==
  \E i \in 1..(Len(s) - Len(sub) + 1) : SubSeq(s, i, i + Len(sub) - 1) = sub

WhiteSpace == {" ", "\t"}

\* String.prototype.trim.
RECURSIVE TrimStart(_)
TrimStart(s) ==
  IF s # <<>> /\ Head(s) \in WhiteSpace THEN TrimStart(Tail(s)) ELSE s

RECURSIVE TrimEnd(_)
TrimEnd(s) ==
  IF s # <<>> /\ s[Len(s)] \in WhiteSpace
    THEN TrimEnd(SubSeq(s, 1, Len(s) - 1)) ELSE s

Trim(s) == TrimEnd(TrimStart(s))

\* JavaScript truthiness of an optional string: neither undefined nor "".
Truthy(s) == s # Absent /\ s # <<>>

\* The literal 'need to book' of the routes.
Marker == <<"n","e","e","d"," ","t","o"," ","b","o","o","k">>

\* event.summary && event.summary.toLowerCase().includes('need to book')
\* and event.summary?.toLowerCase().includes('need to book'): both are
\* falsy for an absent or empty summary.
TitleMatches(summary) ==
  Truthy(summary) /\ Includes(ToLowerCase(summary), Marker)

\* ------------------------------------------------------------------- units
HoursPerDay == 24

\* A distance of m metres, and of k kilometres, in thirds of a metre.
FromMetres(m) == m * 3
FromKm(k) == k * 3000

\* The model's encoding of a null distance or a null coordinate.
Null == -1

\* ------------------------------------------------------------------ events
\* CalendarEvent, reduced to the fields the search reads: id, summary
\* (title), location and the start instant (start.dateTime || start.date,
\* in hours since the epoch).
Str_ASt == <<"A"," ","S","t">>
Str_BRd == <<"B"," ","R","d">>
Str_Blank == <<" "," ">>

Ev(id, summary, location, start) ==
  [id |-> id, summary |-> summary, location |-> location, start |-> start]

\* The events an account may hold, in start order (events.list is called
\* with orderBy: 'startTime'), each with the calendar that holds it when the
\* account keeps its jobs to book in a calendar of their own.
Catalog == <<
  \* no title, 7 days and 1 hour before the roof job
  [home |-> "work",
   ev |-> Ev("o2", Absent, Str_BRd, 71)],
  \* the job to book: mixed-case marker, located
  [home |-> "ntb",
   ev |-> Ev("t1", <<"R","o","o","f"," ","N","e","e","d"," ","T","o"," ","B","o","o","k">>, Str_ASt, 240)],
  \* same instant and same address as the roof job, no marker in the title
  [home |-> "ntb",
   ev |-> Ev("t3", <<"G","u","t","t","e","r","s">>, Str_ASt, 240)],
  \* a guest copy of the roof job in another calendar: same event id
  [home |-> "work",
   ev |-> Ev("t1", <<"R","o","o","f">>, Str_BRd, 241)],
  \* an upper-case marker title kept in the work calendar
  [home |-> "work",
   ev |-> Ev("o5", <<"N","E","E","D"," ","T","O"," ","B","O","O","K"," ","x">>, Str_BRd, 245)],
  \* a location of blanks only
  [home |-> "work",
   ev |-> Ev("o3", <<"P","l","u","m","b">>, Str_Blank, 250)],
  \* jobs to book without a location: empty string, absent field
  [home |-> "ntb",
   ev |-> Ev("t2", <<"n","e","e","d"," ","t","o"," ","b","o","o","k">>, <<>>, 264)],
  [home |-> "ntb",
   ev |-> Ev("t4", <<"x"," ","n","e","e","d"," ","t","o"," ","b","o","o","k">>, Absent, 264)],
  \* exactly 7 days after the roof job
  [home |-> "work",
   ev |-> Ev("o1", <<"P","a","i","n","t">>, Str_ASt, 408)],
  \* an event of a second calendar named after the marker
  [home |-> "old",
   ev |-> Ev("x1", <<"O","l","d">>, Str_BRd, 242)]
>>

\* The calendar list of an account with one calendar, and of an account
\* with a calendar for the jobs to book (calendarList.list).
MergedCalendars == <<
  [id |-> "primary", summary |-> <<"W","o","r","k">>, accessRole |-> "owner"] >>
SplitCalendars == <<
  [id |-> "work", summary |-> <<"W","o","r","k">>, accessRole |-> "owner"],
  [id |-> "ntb", summary |-> <<"J","o","b","s"," ","N","e","e","d"," ","T","o"," ","B","o","o","k">>,
   accessRole |-> "writer"],
  [id |-> "old", summary |-> <<"N","E","E","D"," ","T","O"," ","B","O","O","K"," ","2">>,
   accessRole |-> "reader"] >>

RECURSIVE Pick(_, _, _)
\* The events of Catalog at the indices in sel held by calendar home (by any
\* calendar when home is "any"), in catalogue (start) order, from index i on.
Pick(sel, home, i) ==
  IF i > Len(Catalog) THEN <<>>
  ELSE IF i \in sel /\ (home = "any" \/ Catalog[i].home = home)
    THEN <<Catalog[i].ev>> \o Pick(sel, home, i + 1)
    ELSE Pick(sel, home, i + 1)

\* Event ids are unique within a calendar.
UniqueIds(events) ==
  \A i, j \in 1..Len(events) : events[i].id = events[j].id => i = j

Selections == {sel \in SUBSET (1..Len(Catalog)) : Cardinality(sel) <= MaxEvents}

\* ------------------------------------------------------------ pure helpers
\* new Date(a).getTime() - new Date(b).getTime(), then
\* Math.abs(... / (1000 * 60 * 60 * 24)) > 7, on whole hours: the quotient
\* is not rounded, so it exceeds 7 exactly when the gap exceeds 7 * 24 h.
WindowDays == 7
AbsDiff(a, b) == IF a >= b THEN a - b ELSE b - a
\* The window test on the day difference rounded down to whole days.
OutsideWindow_RoundedDays(eventStart, targetStart) ==
  (AbsDiff(eventStart, targetStart) \div HoursPerDay) > WindowDays

OutsideWindow(eventStart, targetStart) ==
  AbsDiff(eventStart, targetStart) > WindowDays * HoursPerDay

\* eventDate.toISOString().split('T')[0]: the UTC calendar day of an
\* instant, as a day number.
DayKey(start) == start \div HoursPerDay

\* distance <= 20
ThresholdKm == 20

\* The threshold test with a strict comparison.
WithinThreshold_Strict(distance) == distance < FromKm(ThresholdKm)

WithinThreshold(distance) == distance <= FromKm(ThresholdKm)

\* getDrivingDistance with a catch block that returns 0.
getDrivingDistance_ZeroOnThrow(reply) ==
  IF reply.thrown THEN 0
  ELSE IF reply.status = "OK" /\ Len(reply.elements) > 0
    THEN IF reply.elements[1].status = "OK"
           THEN FromMetres(reply.elements[1].value)
           ELSE Null
    ELSE Null

\* getDrivingDistance: the kilometres of a distance-matrix reply, or null.
\* A reply is what fetch + response.json() produced: thrown marks a
\* rejected fetch or an unparsable body.
getDrivingDistance(reply) ==
  IF reply.thrown THEN Null
  ELSE IF reply.status = "OK" /\ Len(reply.elements) > 0
    THEN IF reply.elements[1].status = "OK"
           THEN FromMetres(reply.elements[1].value)
           ELSE Null
    ELSE Null

\* The replies the distance matrix may give to one request.
Metres == {1000, 20000, 20001, 25000}
Replies ==
  {[thrown |-> TRUE, status |-> "", elements |-> <<>>],
   [thrown |-> FALSE, status |-> "OVER_QUERY_LIMIT", elements |-> <<>>],
   [thrown |-> FALSE, status |-> "OK",
    elements |-> <<[status |-> "NOT_FOUND", value |-> 0]>>]}
  \cup {[thrown |-> FALSE, status |-> "OK",
         elements |-> <<[status |-> "OK", value |-> m]>>] : m \in Metres}

RECURSIVE InsertByDistance_BeforeEqual(_, _)
\* The insertion that puts a job before the jobs of equal distance.
InsertByDistance_BeforeEqual(sorted, job) ==
  IF sorted = <<>> THEN <<job>>
  ELSE IF job.distance <= Head(sorted).distance
    THEN <<job>> \o sorted
    ELSE <<Head(sorted)>> \o InsertByDistance_BeforeEqual(Tail(sorted), job)

RECURSIVE InsertByDistance(_, _)
InsertByDistance(sorted, job) ==
  IF sorted = <<>> THEN <<job>>
  ELSE IF job.distance < Head(sorted).distance
    THEN <<job>> \o sorted
    ELSE <<Head(sorted)>> \o InsertByDistance(Tail(sorted), job)

RECURSIVE SortByDistance(_)
\* nearbyEvents.sort((a, b) => a.distance - b.distance): a stable sort.
SortByDistance(jobs) ==
  IF jobs = <<>> THEN <<>>
  ELSE InsertByDistance(SortByDistance(SubSeq(jobs, 1, Len(jobs) - 1)),
                        jobs[Len(jobs)])

\* The assignment that keeps the value of a key already present.
Assign_KeepExisting(obj, key, value) ==
  [k \in DOMAIN obj \cup {key} |->
     IF k \in DOMAIN obj THEN obj[k] ELSE value]

\* obj[key] = value on a plain object.
Assign(obj, key, value) ==
  [k \in DOMAIN obj \cup {key} |-> IF k = key THEN value ELSE obj[k]]

\* ------------------------------------------------------------------- state
VARIABLES
  impl,               \* which implementation serves the request
  calendars,          \* the account's calendar list
  store,              \* calendar id -> the events events.list returns
  body,               \* the request body of the search endpoint
  pc,                 \* the handler's position
  session,            \* what getServerSession returned
  mapsKey,            \* whether a Google Maps key is configured
  calendarIdParam,    \* the calendarId query parameter
  needToBookCalendar, \* the calendar found by name (cross-calendar)
  allEvents,          \* the fetched events / the pool of the request
  needToBookEvents,   \* the targets
  ti,                 \* index of the target being processed
  accessibleCalendars,\* the calendar list fetched for the target
  ci,                 \* index of the calendar being searched
  calendarEvents,     \* the events of that calendar
  ei,                 \* index of the event being examined
  nearbyEvents,       \* the candidates kept so far for the target
  nearbyJobsByDay,    \* day key -> {needToBookEvent, nearbyJobs}
  needToBookCoords,   \* the geocoded target (search endpoint)
  eventsToSearch,     \* the filtered pool (search endpoint)
  nearbyJobs,         \* the candidates kept so far (search endpoint)
  response,           \* the HTTP response, once sent
  lookups,            \* history: every lookup made, its reply and result
  fetchLog,           \* history: every call to the event source, the
                      \* target it was made for and whether it succeeded
  selectedCalendarId, \* page: the calendar picked ('all' or an id)
  startDate,          \* page: the start date picked
  data,               \* page: the result on display, or null
  loading,            \* page: whether the spinner shows
  error,              \* page: the error message, or null
  requests,           \* page: the calls of fetchNeedToBookEvents, in the
                      \* order they were issued, with their position
  shown,              \* history: the call whose setData ran last
  url,                \* sign-in: the url the redirect callback was given
  baseUrl,            \* sign-in: the application's base url
  redirectTo          \* sign-in: what the redirect callback returned

vars == <<impl, calendars, store, body, pc, session, mapsKey, calendarIdParam,
          needToBookCalendar, allEvents, needToBookEvents, ti,
          accessibleCalendars, ci, calendarEvents, ei, nearbyEvents,
          nearbyJobsByDay, needToBookCoords, eventsToSearch, nearbyJobs,
          response, lookups, fetchLog, selectedCalendarId, startDate, data,
          loading, error, requests, shown, url, baseUrl, redirectTo>>

Impls == {"single", "cross", "search", "searchOld", "events", "calendars"}
\* The two GET handlers of the search.
GetSearchImpls == {"single", "cross"}
\* The two POST handlers that take the target and the pool from the body.
SearchImpls == {"search", "searchOld"}
Sessions == {"none", "noToken", "valid"}

NoResponse == [status |-> 0]
NoCalendar == [id |-> "", summary |-> <<>>, accessRole |-> ""]
NoBody == [needToBookEvent |-> Ev("", Absent, Absent, 0), allEvents |-> <<>>]
NoCoords == [none |-> TRUE]
EmptyObject == <<>>
\* The target of an event-source call made before the target loop.
NoTarget == Ev("", Absent, Absent, 0)
\* One call to the event source: calendarList.list (cal is "calendarList")
\* or events.list of calendar cal.
Fetch(target, cal, ok) == [target |-> target, cal |-> cal, ok |-> ok]

\* NextResponse.json({ error: 'Unauthorized' }, { status: 401 })
Unauthorized == [status |-> 401, error |-> "Unauthorized"]

\* The catch block of the GET handlers.
FailedToFetch ==
  [status |-> 500, error |-> "Failed to fetch need-to-book events"]

\* NextResponse.json({ needToBookEvents, nearbyJobsByDay, warning? })
Result(targets, byDay, warning) ==
  [status |-> 200, needToBookEvents |-> targets, nearbyJobsByDay |-> byDay,
   warning |-> warning]

\* The calendar stores an account can have: everything in one calendar, or
\* the jobs to book in a calendar of their own.
MergedStore(sel) == [c \in {"primary"} |-> Pick(sel, "any", 1)]
SplitStore(sel) == [c \in {"work", "ntb", "old"} |-> Pick(sel, c, 1)]

CalendarIds == {calendars[i].id : i \in 1..Len(calendars)}

\* useState(null), useState(true), useState(null), useState('all') and the
\* start date of today; no call of fetchNeedToBookEvents made yet.
NoData == [none |-> TRUE]
NoError == "<null>"
PageIdle ==
  /\ selectedCalendarId = "all"
  /\ startDate = 0
  /\ data = NoData
  /\ loading = TRUE
  /\ error = NoError
  /\ requests = <<>>
  /\ shown = 0

\* The redirect callback has not been called.
RedirectIdle ==
  /\ url = <<>>
  /\ baseUrl = <<>>
  /\ redirectTo = <<>>

\* A handler before it runs.
HandlerIdle ==
  /\ pc = "start"
  /\ session = "unread"
  /\ mapsKey = FALSE
  /\ calendarIdParam = ""
  /\ needToBookCalendar = NoCalendar
  /\ allEvents = <<>>
  /\ needToBookEvents = <<>>
  /\ ti = 0
  /\ accessibleCalendars = <<>>
  /\ ci = 0
  /\ calendarEvents = <<>>
  /\ ei = 0
  /\ nearbyEvents = <<>>
  /\ nearbyJobsByDay = EmptyObject
  /\ needToBookCoords = NoCoords
  /\ eventsToSearch = <<>>
  /\ nearbyJobs = <<>>
  /\ response = NoResponse
  /\ lookups = {}
  /\ fetchLog = {}

Init ==
  /\ impl \in Impls
  /\ \E sel \in Selections :
       \/ /\ impl \notin SearchImpls
          /\ UniqueIds(Pick(sel, "any", 1))
          /\ calendars = MergedCalendars
          /\ store = MergedStore(sel)
          /\ body = NoBody
       \/ /\ impl \notin SearchImpls
          /\ calendars = SplitCalendars
          /\ store = SplitStore(sel)
          /\ body = NoBody
       \/ /\ impl \in SearchImpls
          /\ calendars = SplitCalendars
          /\ store = SplitStore(sel)
          /\ \E i \in sel :
               /\ TitleMatches(Catalog[i].ev.summary)
               /\ body = [needToBookEvent |-> Catalog[i].ev,
                          allEvents |-> Pick(sel, "any", 1)]
  /\ HandlerIdle
  /\ PageIdle
  /\ RedirectIdle

\* The page and the sign-in callback are not part of a handler's run.
pageVars == <<selectedCalendarId, startDate, data, loading, error, requests,
              shown>>
redirectVars == <<url, baseUrl, redirectTo>>
input == <<impl, calendars, store, body, pageVars, redirectVars>>
searchVars == <<needToBookCoords, eventsToSearch, nearbyJobs>>
loopVars == <<ti, accessibleCalendars, ci, calendarEvents, ei, nearbyEvents,
              nearbyJobsByDay>>
history == <<lookups, fetchLog>>

\* ------------------------------------------------- the credential check
\* The credential check that tests the session and not its access token.
Authenticate_SessionOnly ==
  /\ pc = "start"
  /\ \E s \in Sessions :
       /\ session' = s
       /\ IF s = "none"
            THEN pc' = "done" /\ response' = Unauthorized
            ELSE pc' = "fetch" /\ UNCHANGED response
  /\ UNCHANGED <<input, searchVars, mapsKey, calendarIdParam, needToBookCalendar,
                 allEvents, needToBookEvents, loopVars, history>>

\* const session = await getServerSession(authOptions)
\* if (!session || !session.accessToken) return 401
Authenticate ==
  /\ pc = "start"
  /\ \E s \in Sessions :
       /\ session' = s
       /\ IF s # "valid"
            THEN pc' = "done" /\ response' = Unauthorized
            ELSE pc' = "fetch" /\ UNCHANGED response
  /\ UNCHANGED <<input, searchVars, mapsKey, calendarIdParam, needToBookCalendar,
                 allEvents, needToBookEvents, loopVars, history>>

\* --------------------------------------- single-calendar GET: the events
\* The title filter with a comparison that forgets toLowerCase.
IsNeedToBook_CaseSensitive(event) ==
  Truthy(event.summary) /\ Includes(event.summary, Marker)

\* allEvents.filter(event => event.summary &&
\*   event.summary.toLowerCase().includes('need to book'))
IsNeedToBook(event) == TitleMatches(event.summary)

\* calendar.events.list({calendarId: calendarIdParam, ...}) and the title
\* filter; a rejected call lands in the catch block.
SingleListEvents ==
  /\ pc = "fetch" /\ impl = "single"
  /\ \E c \in CalendarIds :
       /\ calendarIdParam' = c
       /\ \/ /\ allEvents' = store[c]
             /\ needToBookEvents' = SelectSeq(store[c], IsNeedToBook)
             /\ pc' = "key"
             /\ fetchLog' = fetchLog \cup {Fetch(NoTarget, c, TRUE)}
             /\ UNCHANGED response
          \/ /\ pc' = "done"
             /\ response' = FailedToFetch
             /\ fetchLog' = fetchLog \cup {Fetch(NoTarget, c, FALSE)}
             /\ UNCHANGED <<allEvents, needToBookEvents>>
  /\ UNCHANGED <<input, searchVars, session, mapsKey, needToBookCalendar, loopVars,
                 lookups>>

\* ---------------------------------------- cross-calendar GET: the events
NamedNeedToBook(cal) == TitleMatches(cal.summary)

\* allCalendars.find(cal => cal.summary && ...includes('need to book'))
FindNeedToBookCalendar(cals) ==
  IF SelectSeq(cals, NamedNeedToBook) = <<>> THEN NoCalendar
  ELSE Head(SelectSeq(cals, NamedNeedToBook))

\* calendarList.list, the search for the calendar by name, events.list of
\* that calendar; every event of it is a target.  A rejected call lands in
\* the catch block.
CrossListEvents ==
  /\ pc = "fetch" /\ impl = "cross"
  /\ LET found == FindNeedToBookCalendar(calendars) IN
       \/ /\ found = NoCalendar
          /\ pc' = "done"
          /\ response' = Result(<<>>, EmptyObject, "no-calendar")
          /\ fetchLog' = fetchLog \cup {Fetch(NoTarget, "calendarList", TRUE)}
          /\ UNCHANGED <<needToBookCalendar, allEvents, needToBookEvents>>
       \/ /\ found # NoCalendar
          /\ needToBookCalendar' = found
          /\ allEvents' = store[found.id]
          /\ needToBookEvents' = store[found.id]
          /\ pc' = "key"
          /\ fetchLog' = fetchLog \cup {Fetch(NoTarget, "calendarList", TRUE),
                                         Fetch(NoTarget, found.id, TRUE)}
          /\ UNCHANGED response
       \/ /\ pc' = "done"
          /\ response' = FailedToFetch
          /\ \/ fetchLog' = fetchLog \cup
                  {Fetch(NoTarget, "calendarList", FALSE)}
             \/ /\ found # NoCalendar
                /\ fetchLog' = fetchLog \cup
                     {Fetch(NoTarget, "calendarList", TRUE),
                      Fetch(NoTarget, found.id, FALSE)}
          /\ UNCHANGED <<needToBookCalendar, allEvents, needToBookEvents>>
  /\ UNCHANGED <<input, searchVars, session, mapsKey, calendarIdParam, loopVars, lookups>>

\* -------------------------------------------------- the Google Maps key
\* const googleMapsApiKey = process.env.GOOGLE_MAPS_API_KEY || ...
\* if (!googleMapsApiKey) return { needToBookEvents, nearbyJobsByDay: {},
\*                                 warning }
CheckMapsKey ==
  /\ pc = "key" /\ impl \in {"single", "cross"}
  /\ \E k \in BOOLEAN :
       /\ mapsKey' = k
       /\ IF k
            THEN pc' = "target" /\ ti' = 1 /\ UNCHANGED response
            ELSE /\ pc' = "done"
                 /\ response' = Result(needToBookEvents, EmptyObject,
                                       "no-maps-key")
                 /\ UNCHANGED ti
  /\ UNCHANGED <<input, searchVars, session, calendarIdParam, needToBookCalendar,
                 allEvents, needToBookEvents, accessibleCalendars, ci,
                 calendarEvents, ei, nearbyEvents, nearbyJobsByDay, history>>

\* ------------------------------------------------------ the target loop
\* for (const needToBookEvent of needToBookEvents) {
\*   if (!needToBookEvent.location) continue
SkipTarget ==
  /\ pc = "target" /\ ti <= Len(needToBookEvents)
  /\ ~Truthy(needToBookEvents[ti].location)
  /\ ti' = ti + 1
  /\ UNCHANGED <<input, searchVars, pc, session, mapsKey, calendarIdParam,
                 needToBookCalendar, allEvents, needToBookEvents,
                 accessibleCalendars, ci, calendarEvents, ei, nearbyEvents,
                 nearbyJobsByDay, response, history>>

\* single-calendar: const nearbyEvents = []; for (const event of allEvents)
SingleBeginTarget ==
  /\ pc = "target" /\ impl = "single" /\ ti <= Len(needToBookEvents)
  /\ Truthy(needToBookEvents[ti].location)
  /\ nearbyEvents' = <<>>
  /\ ei' = 1
  /\ pc' = "event"
  /\ UNCHANGED <<input, searchVars, session, mapsKey, calendarIdParam, needToBookCalendar,
                 allEvents, needToBookEvents, ti, accessibleCalendars, ci,
                 calendarEvents, nearbyJobsByDay, response, history>>

\* cross-calendar: const nearbyEvents = []; calendarList.list again (a
\* rejected call lands in the outer catch block).
CrossBeginTarget ==
  /\ pc = "target" /\ impl = "cross" /\ ti <= Len(needToBookEvents)
  /\ Truthy(needToBookEvents[ti].location)
  /\ \/ /\ nearbyEvents' = <<>>
        /\ accessibleCalendars' = calendars
        /\ ci' = 1
        /\ pc' = "calendar"
        /\ fetchLog' = fetchLog \cup
             {Fetch(needToBookEvents[ti], "calendarList", TRUE)}
        /\ UNCHANGED response
     \/ /\ pc' = "done"
        /\ response' = FailedToFetch
        /\ fetchLog' = fetchLog \cup
             {Fetch(needToBookEvents[ti], "calendarList", FALSE)}
        /\ UNCHANGED <<nearbyEvents, accessibleCalendars, ci>>
  /\ UNCHANGED <<input, searchVars, session, mapsKey, calendarIdParam, needToBookCalendar,
                 allEvents, needToBookEvents, ti, calendarEvents, ei,
                 nearbyJobsByDay, lookups>>

\* The single-calendar filter with an exclusion by location added.
SingleSkips_ByLocation(event, target) ==
  \/ event.id = target.id
  \/ ~Truthy(event.location)
  \/ TitleMatches(event.summary)
  \/ event.location = target.location

\* The candidate filter of the single-calendar loop:
\* if (event.id === needToBookEvent.id || !event.location ||
\*     event.summary?.toLowerCase().includes('need to book')) continue
SingleSkips(event, target) ==
  \/ event.id = target.id
  \/ ~Truthy(event.location)
  \/ TitleMatches(event.summary)

\* The candidate filter of the cross-calendar loop:
\* if (!event.location || !event.id || !event.start) continue
\* (every event of the account has a start).
CrossSkips(event, target) ==
  \/ ~Truthy(event.location)
  \/ event.id = ""

\* if (distance !== null && distance <= 20) nearbyEvents.push(...)
KeepsDistance(distance) == distance # Null /\ WithinThreshold(distance)

\* The CalendarEvent the cross-calendar loop builds from a fetched event:
\* summary: event.summary || ''.
CastEvent(event) ==
  [event EXCEPT !.summary = IF Truthy(@) THEN @ ELSE <<>>]

\* One iteration of for (const event of allEvents): filter, window test,
\* driving-distance lookup, threshold test, push.
SingleProcessEvent ==
  /\ pc = "event" /\ impl = "single" /\ ei <= Len(allEvents)
  /\ LET target == needToBookEvents[ti]
         event == allEvents[ei]
     IN IF SingleSkips(event, target)
           \/ OutsideWindow(event.start, target.start)
          THEN UNCHANGED <<nearbyEvents, history>>
          ELSE \E reply \in Replies :
                 LET distance == getDrivingDistance(reply) IN
                   /\ lookups' = lookups \cup
                        {[target |-> target, event |-> event,
                          reply |-> reply, distance |-> distance]}
                   /\ nearbyEvents' =
                        IF KeepsDistance(distance)
                          THEN Append(nearbyEvents,
                                      [event |-> event, distance |-> distance])
                          ELSE nearbyEvents
                   /\ UNCHANGED fetchLog
  /\ ei' = ei + 1
  /\ UNCHANGED <<input, searchVars, pc, session, mapsKey, calendarIdParam,
                 needToBookCalendar, allEvents, needToBookEvents, ti,
                 accessibleCalendars, ci, calendarEvents, nearbyJobsByDay,
                 response>>

\* for (const accessibleCalendar of accessibleCalendars): skip the calendars
\* named after the marker, else events.list inside try/catch; a rejected
\* call is logged and the calendar is skipped.
SkipsCalendar(cal) ==
  cal.id = needToBookCalendar.id \/ TitleMatches(cal.summary)

CrossNextCalendar ==
  /\ pc = "calendar" /\ ci <= Len(accessibleCalendars)
  /\ LET cal == accessibleCalendars[ci] IN
       IF SkipsCalendar(cal)
         THEN /\ ci' = ci + 1
              /\ UNCHANGED <<pc, calendarEvents, ei, fetchLog>>
         ELSE \/ /\ calendarEvents' = store[cal.id]
                 /\ ei' = 1
                 /\ pc' = "event"
                 /\ fetchLog' = fetchLog \cup
                      {Fetch(needToBookEvents[ti], cal.id, TRUE)}
                 /\ UNCHANGED ci
              \/ /\ ci' = ci + 1
                 /\ fetchLog' = fetchLog \cup
                      {Fetch(needToBookEvents[ti], cal.id, FALSE)}
                 /\ UNCHANGED <<pc, calendarEvents, ei>>
  /\ UNCHANGED <<input, searchVars, session, mapsKey, calendarIdParam, needToBookCalendar,
                 allEvents, needToBookEvents, ti, accessibleCalendars,
                 nearbyEvents, nearbyJobsByDay, response, lookups>>

\* One iteration of for (const event of calendarEvents).
CrossProcessEvent ==
  /\ pc = "event" /\ impl = "cross" /\ ei <= Len(calendarEvents)
  /\ LET target == needToBookEvents[ti]
         event == calendarEvents[ei]
     IN IF CrossSkips(event, target)
           \/ OutsideWindow(event.start, target.start)
          THEN UNCHANGED <<nearbyEvents, history>>
          ELSE \E reply \in Replies :
                 LET distance == getDrivingDistance(reply) IN
                   /\ lookups' = lookups \cup
                        {[target |-> target, event |-> event,
                          reply |-> reply, distance |-> distance]}
                   /\ nearbyEvents' =
                        IF KeepsDistance(distance)
                          THEN Append(nearbyEvents,
                                      [event |-> CastEvent(event),
                                       distance |-> distance])
                          ELSE nearbyEvents
                   /\ UNCHANGED fetchLog
  /\ ei' = ei + 1
  /\ UNCHANGED <<input, searchVars, pc, session, mapsKey, calendarIdParam,
                 needToBookCalendar, allEvents, needToBookEvents, ti,
                 accessibleCalendars, ci, calendarEvents, nearbyJobsByDay,
                 response>>

\* The end of for (const event of calendarEvents): on to the next calendar.
CrossEndCalendar ==
  /\ pc = "event" /\ impl = "cross" /\ ei > Len(calendarEvents)
  /\ ci' = ci + 1
  /\ pc' = "calendar"
  /\ UNCHANGED <<input, searchVars, session, mapsKey, calendarIdParam, needToBookCalendar,
                 allEvents, needToBookEvents, ti, accessibleCalendars,
                 calendarEvents, ei, nearbyEvents, nearbyJobsByDay, response,
                 history>>

\* The entry filed under the day of its nearest candidate.
Aggregate_ByCandidateDay(byDay, target, jobs) ==
  IF Len(jobs) > 0
    THEN Assign(byDay, DayKey(SortByDistance(jobs)[1].event.start),
                [needToBookEvent |-> target,
                 nearbyJobs |-> SortByDistance(jobs)])
    ELSE byDay

\* The assignment of the day's entry without the test of the length.
Aggregate_Always(byDay, target, jobs) ==
  Assign(byDay, DayKey(target.start),
         [needToBookEvent |-> target, nearbyJobs |-> SortByDistance(jobs)])

\* After the candidate loop of a target: sort, and
\* if (nearbyEvents.length > 0) nearbyJobsByDay[dayKey] = {...}
Aggregate(byDay, target, jobs) ==
  IF Len(jobs) > 0
    THEN Assign(byDay, DayKey(target.start),
                [needToBookEvent |-> target,
                 nearbyJobs |-> SortByDistance(jobs)])
    ELSE byDay

FinishTarget ==
  /\ \/ pc = "event" /\ impl = "single" /\ ei > Len(allEvents)
     \/ pc = "calendar" /\ impl = "cross" /\ ci > Len(accessibleCalendars)
  /\ nearbyJobsByDay' =
       Aggregate(nearbyJobsByDay, needToBookEvents[ti], nearbyEvents)
  /\ ti' = ti + 1
  /\ pc' = "target"
  /\ UNCHANGED <<input, searchVars, session, mapsKey, calendarIdParam, needToBookCalendar,
                 allEvents, needToBookEvents, accessibleCalendars, ci,
                 calendarEvents, ei, nearbyEvents, response, history>>

\* The response that lists only the targets that have a location.
Respond_LocatedOnly ==
  /\ pc = "target" /\ ti > Len(needToBookEvents)
  /\ LET Located(t) == Truthy(t.location) IN
       response' = Result(SelectSeq(needToBookEvents, Located),
                          nearbyJobsByDay, "none")
  /\ pc' = "done"
  /\ UNCHANGED <<input, searchVars, session, mapsKey, calendarIdParam, needToBookCalendar,
                 allEvents, needToBookEvents, loopVars, history>>

\* return NextResponse.json({ needToBookEvents, nearbyJobsByDay })
Respond ==
  /\ pc = "target" /\ ti > Len(needToBookEvents)
  /\ response' = Result(needToBookEvents, nearbyJobsByDay, "none")
  /\ pc' = "done"
  /\ UNCHANGED <<input, searchVars, session, mapsKey, calendarIdParam, needToBookCalendar,
                 allEvents, needToBookEvents, loopVars, history>>

\* ----------------------------------------------------- search endpoint
\* The pool filter of the search endpoint and of its fallback:
\* event.id !== needToBookEvent.id && event.location &&
\* event.location.trim() !== '' &&
\* !event.summary?.toLowerCase().includes('need to book')
SearchKeeps(event, target) ==
  /\ event.id # target.id
  /\ Truthy(event.location)
  /\ Trim(event.location) # <<>>
  /\ ~TitleMatches(event.summary)

EventsToSearch(target, events) ==
  LET Keep(event) == SearchKeeps(event, target) IN SelectSeq(events, Keep)

\* if (dayDiff <= 7) of performSimplifiedSearch, on whole hours.
EstimateWindowDays == 7
\* The window of the estimate narrowed to two days.
WithinEstimateWindow_TwoDays(eventStart, targetStart) ==
  AbsDiff(eventStart, targetStart) <= 2 * HoursPerDay

WithinEstimateWindow(eventStart, targetStart) ==
  AbsDiff(eventStart, targetStart) <= EstimateWindowDays * HoursPerDay

\* Math.max(0.1, dayDiff * 10): 10 km per day of gap, at least 0.1 km.
EstimateKmPerDay == 10
EstimateFloorMetres == 100
Max(a, b) == IF a >= b THEN a ELSE b
EstimatedDistance(gapHours) ==
  Max(FromMetres(EstimateFloorMetres),
      (gapHours * FromKm(EstimateKmPerDay)) \div HoursPerDay)

\* eventDate.toDateString(): the server's calendar day (a UTC server).
DateString(start) == start \div HoursPerDay

RECURSIVE EstimateJobs(_, _)
\* eventsToSearch.forEach(...) of performSimplifiedSearch.
EstimateJobs(events, target) ==
  IF events = <<>> THEN <<>>
  ELSE LET event == Head(events)
           rest == EstimateJobs(Tail(events), target)
       IN IF WithinEstimateWindow(event.start, target.start)
            THEN <<[event |-> event,
                    distance |-> EstimatedDistance(
                                   AbsDiff(event.start, target.start)),
                    date |-> DateString(event.start)]>> \o rest
            ELSE rest

\* The estimate with the 20 km threshold applied to its result.
performSimplifiedSearch_WithinThreshold(target, events) ==
  LET Near(job) == WithinThreshold(job.distance) IN
    SelectSeq(SortByDistance(
                EstimateJobs(EventsToSearch(target, events), target)), Near)

performSimplifiedSearch(target, events) ==
  SortByDistance(EstimateJobs(EventsToSearch(target, events), target))

\* The first POST handler's estimate: distance: dayDiff * 5, no minimum.
EstimateKmPerDayOld == 5
EstimatedDistanceOld(gapHours) ==
  (gapHours * FromKm(EstimateKmPerDayOld)) \div HoursPerDay

RECURSIVE EstimateJobsOld(_, _)
\* eventsToSearch.forEach(...) of the first performSimplifiedSearch.
EstimateJobsOld(events, target) ==
  IF events = <<>> THEN <<>>
  ELSE LET event == Head(events)
           rest == EstimateJobsOld(Tail(events), target)
       IN IF WithinEstimateWindow(event.start, target.start)
            THEN <<[event |-> event,
                    distance |-> EstimatedDistanceOld(
                                   AbsDiff(event.start, target.start)),
                    date |-> DateString(event.start)]>> \o rest
            ELSE rest

performSimplifiedSearchOld(target, events) ==
  SortByDistance(EstimateJobsOld(EventsToSearch(target, events), target))

\* getCoordinatesFromAddress with a catch block that returns the origin.
getCoordinatesFromAddress_OriginOnThrow(reply) ==
  IF reply.thrown THEN [lat |-> 0, lng |-> 0]
  ELSE IF reply.status = "OK" /\ Len(reply.results) > 0
    THEN [lat |-> reply.results[1].lat, lng |-> reply.results[1].lng]
    ELSE NoCoords

\* getCoordinatesFromAddress: the first result of a geocoding reply, or
\* null.  Coordinates are in thousandths of a degree.
getCoordinatesFromAddress(reply) ==
  IF reply.thrown THEN NoCoords
  ELSE IF reply.status = "OK" /\ Len(reply.results) > 0
    THEN [lat |-> reply.results[1].lat, lng |-> reply.results[1].lng]
    ELSE NoCoords

\* The replies the geocoder may give to one request: points of the
\* Greenwich meridian.
Latitudes == {0, 179, 180}
GeoReplies ==
  {[thrown |-> TRUE, status |-> "", results |-> <<>>],
   [thrown |-> FALSE, status |-> "ZERO_RESULTS", results |-> <<>>]}
  \cup {[thrown |-> FALSE, status |-> "OK",
         results |-> <<[lat |-> lat, lng |-> 0]>>] : lat \in Latitudes}

\* calculateDistance (haversine, R = 6371 km) for two points of one
\* meridian, where a = sin^2(dLat / 2) and the distance is R * |dLat| in
\* radians: 6371 km * (d / 1000) * pi / 180 for d thousandths of a degree,
\* in thirds of a metre and with pi = 355 / 113, rounded down.
EarthRadiusKm == 6371
calculateDistance(lat1, lon1, lat2, lon2) ==
  (EarthRadiusKm * AbsDiff(lat1, lat2) * 71) \div 1356

SearchResult(jobs, warning) ==
  [status |-> 200, nearbyJobs |-> jobs, warning |-> warning]

\* The response of the fallback: the newer handler adds a warning to the
\* estimates, the first handler returns { nearbyJobs } alone.
Fallback(target, events, warning) ==
  IF impl = "search"
    THEN SearchResult(performSimplifiedSearch(target, events), warning)
    ELSE SearchResult(performSimplifiedSearchOld(target, events), "none")

\* The body is read, then the key check (fallback to the time estimate
\* when no key is configured), then the location check.
SearchCheckMapsKey ==
  /\ pc = "fetch" /\ impl \in SearchImpls
  /\ allEvents' = body.allEvents
  /\ needToBookEvents' = <<body.needToBookEvent>>
  /\ \E k \in BOOLEAN :
       /\ mapsKey' = k
       /\ IF ~k
            THEN /\ response' = Fallback(body.needToBookEvent,
                                          body.allEvents, "simplified-search")
                 /\ pc' = "done"
            ELSE IF ~Truthy(body.needToBookEvent.location)
              THEN /\ response' = SearchResult(<<>>, "none")
                   /\ pc' = "done"
              ELSE /\ pc' = "geocodeTarget"
                   /\ UNCHANGED response
  /\ UNCHANGED <<input, searchVars, session, calendarIdParam,
                 needToBookCalendar, loopVars, history>>

\* The target's location is geocoded; on failure the time estimate is
\* returned with a warning, else the pool is filtered.
SearchGeocodeTarget ==
  /\ pc = "geocodeTarget"
  /\ \E reply \in GeoReplies :
       LET coords == getCoordinatesFromAddress(reply)
           target == needToBookEvents[1]
       IN IF coords = NoCoords
            THEN /\ response' = Fallback(target, allEvents,
                                          "geocoding-failed")
                 /\ pc' = "done"
                 /\ UNCHANGED <<searchVars, ei>>
            ELSE /\ needToBookCoords' = coords
                 /\ eventsToSearch' = EventsToSearch(target, allEvents)
                 /\ nearbyJobs' = <<>>
                 /\ ei' = 1
                 /\ pc' = "geocode"
                 /\ UNCHANGED response
  /\ UNCHANGED <<input, session, mapsKey, calendarIdParam, needToBookCalendar,
                 allEvents, needToBookEvents, ti, accessibleCalendars, ci,
                 calendarEvents, nearbyEvents, nearbyJobsByDay, history>>

\* The iteration that gives a candidate it cannot geocode the time estimate.
SearchProcessEvent_EstimateOnFailure ==
  /\ pc = "geocode" /\ ei <= Len(eventsToSearch)
  /\ \E reply \in GeoReplies :
       LET eventCoords == getCoordinatesFromAddress(reply)
           event == eventsToSearch[ei]
           distance ==
             IF eventCoords = NoCoords THEN Null
             ELSE calculateDistance(needToBookCoords.lat, needToBookCoords.lng,
                                    eventCoords.lat, eventCoords.lng)
           estimate ==
             EstimatedDistance(AbsDiff(event.start, needToBookEvents[1].start))
       IN /\ lookups' = lookups \cup
               {[target |-> needToBookEvents[1], event |-> event,
                 reply |-> reply, distance |-> distance]}
          /\ nearbyJobs' =
               IF eventCoords = NoCoords
                 THEN Append(nearbyJobs,
                             [event |-> event, distance |-> estimate,
                              date |-> DateString(event.start)])
               ELSE IF WithinThreshold(distance)
                 THEN Append(nearbyJobs,
                             [event |-> event, distance |-> distance,
                              date |-> DateString(event.start)])
                 ELSE nearbyJobs
  /\ ei' = ei + 1
  /\ UNCHANGED <<input, pc, session, mapsKey, calendarIdParam,
                 needToBookCalendar, allEvents, needToBookEvents, ti,
                 accessibleCalendars, ci, calendarEvents, nearbyEvents,
                 nearbyJobsByDay, needToBookCoords, eventsToSearch, response,
                 fetchLog>>

\* One iteration of for (const event of eventsToSearch): geocode, haversine,
\* threshold test, push.
SearchProcessEvent ==
  /\ pc = "geocode" /\ ei <= Len(eventsToSearch)
  /\ \E reply \in GeoReplies :
       LET eventCoords == getCoordinatesFromAddress(reply)
           event == eventsToSearch[ei]
           distance ==
             IF eventCoords = NoCoords THEN Null
             ELSE calculateDistance(needToBookCoords.lat, needToBookCoords.lng,
                                    eventCoords.lat, eventCoords.lng)
       IN /\ lookups' = lookups \cup
               {[target |-> needToBookEvents[1], event |-> event,
                 reply |-> reply, distance |-> distance]}
          /\ nearbyJobs' =
               IF eventCoords # NoCoords /\ WithinThreshold(distance)
                 THEN Append(nearbyJobs,
                             [event |-> event, distance |-> distance,
                              date |-> DateString(event.start)])
                 ELSE nearbyJobs
  /\ ei' = ei + 1
  /\ UNCHANGED <<input, pc, session, mapsKey, calendarIdParam,
                 needToBookCalendar, allEvents, needToBookEvents, ti,
                 accessibleCalendars, ci, calendarEvents, nearbyEvents,
                 nearbyJobsByDay, needToBookCoords, eventsToSearch, response,
                 fetchLog>>

\* nearbyJobs.sort(...); return NextResponse.json({ nearbyJobs })
SearchRespond ==
  /\ pc = "geocode" /\ ei > Len(eventsToSearch)
  /\ response' = SearchResult(SortByDistance(nearbyJobs), "none")
  /\ pc' = "done"
  /\ UNCHANGED <<input, searchVars, session, mapsKey, calendarIdParam,
                 needToBookCalendar, allEvents, needToBookEvents, loopVars,
                 history>>

\* ------------------------------------------------- calendar endpoints
\* The catch blocks of the two calendar endpoints.
FailedToFetchEvents ==
  [status |-> 500, error |-> "Failed to fetch calendar events"]
FailedToFetchCalendars ==
  [status |-> 500, error |-> "Failed to fetch calendars"]

\* GET /api/calendar/events: events.list of the calendar (a rejected call
\* lands in the catch block), then calendarList.get for the colours unless
\* the calendar is 'primary', inside try/catch: a rejected call leaves the
\* colours undefined.
EventsGet ==
  /\ pc = "fetch" /\ impl = "events"
  /\ \E c \in CalendarIds :
       /\ calendarIdParam' = c
       /\ \/ /\ response' = FailedToFetchEvents
             /\ fetchLog' = fetchLog \cup {Fetch(NoTarget, c, FALSE)}
          \/ \E colours \in BOOLEAN :
               /\ c = "primary" => ~colours
               /\ response' = [status |-> 200, events |-> store[c],
                               calendarId |-> c, colours |-> colours]
               /\ fetchLog' = fetchLog \cup
                    ({Fetch(NoTarget, c, TRUE)} \cup
                     IF c = "primary" THEN {}
                     ELSE {Fetch(NoTarget, "calendarList.get", colours)})
  /\ pc' = "done"
  /\ UNCHANGED <<input, searchVars, session, mapsKey, needToBookCalendar,
                 allEvents, needToBookEvents, loopVars, lookups>>

\* cal.accessRole === 'reader' || ... 'writer' || ... 'owner'
Readable(cal) == cal.accessRole \in {"reader", "writer", "owner"}

\* GET /api/calendar/calendars: calendarList.list, the readable calendars.
CalendarsGet ==
  /\ pc = "fetch" /\ impl = "calendars"
  /\ \/ /\ response' = FailedToFetchCalendars
        /\ fetchLog' = fetchLog \cup {Fetch(NoTarget, "calendarList", FALSE)}
     \/ /\ response' = [status |-> 200,
                        calendars |-> SelectSeq(calendars, Readable)]
        /\ fetchLog' = fetchLog \cup {Fetch(NoTarget, "calendarList", TRUE)}
  /\ pc' = "done"
  /\ UNCHANGED <<input, searchVars, session, mapsKey, calendarIdParam,
                 needToBookCalendar, allEvents, needToBookEvents, loopVars,
                 lookups>>

Next ==
  \/ Authenticate
  \/ SingleListEvents
  \/ CrossListEvents
  \/ CheckMapsKey
  \/ SkipTarget
  \/ SingleBeginTarget
  \/ CrossBeginTarget
  \/ SingleProcessEvent
  \/ CrossNextCalendar
  \/ CrossProcessEvent
  \/ CrossEndCalendar
  \/ FinishTarget
  \/ Respond
  \/ SearchCheckMapsKey
  \/ SearchGeocodeTarget
  \/ SearchProcessEvent
  \/ SearchRespond
  \/ EventsGet
  \/ CalendarsGet

Spec == Init /\ [][Next]_vars

\* Object.assign(target, source): every key of source is set on target.
ObjectAssign(target, source) ==
  [k \in DOMAIN target \cup DOMAIN source |->
     IF k \in DOMAIN source THEN source[k] ELSE target[k]]

\* The events in the order Array.prototype.sort leaves them when compared by
\* start: increasing start, equal starts in their earlier order.
RECURSIVE InsertByStart(_, _)
InsertByStart(sorted, event) ==
  IF sorted = <<>> THEN <<event>>
  ELSE IF event.start < Head(sorted).start THEN <<event>> \o sorted
  ELSE <<Head(sorted)>> \o InsertByStart(Tail(sorted), event)

RECURSIVE SortByStart(_)
SortByStart(events) ==
  IF events = <<>> THEN <<>>
  ELSE InsertByStart(SortByStart(SubSeq(events, 1, Len(events) - 1)),
                     events[Len(events)])

\* =================================================== the page (the client)
\* src/src/app/need-to-book/page.tsx: fetchNeedToBookEvents and the effect
\* that calls it.  The page talks to GET /api/calendar/calendars and to
\* GET /api/calendar/need-to-book, which is served by the single-calendar or
\* by the cross-calendar handler (impl).
\* Largest number of calls of fetchNeedToBookEvents in one run.
MaxRequests == 2
StartDates == {0, 1}

handlerVars == <<pc, session, mapsKey, calendarIdParam, needToBookCalendar,
                 allEvents, needToBookEvents, searchVars, loopVars, response,
                 history>>
account == <<impl, calendars, store, body>>

\* fetch() rejected: no response at all.
Rejected == [status |-> -1]

\* The targets the search handler returns for ?calendarId=c: the marked
\* events of calendar c (single-calendar handler), or every event of the
\* calendar found by name, whatever c is (the cross-calendar handler reads
\* startDate only).
ServedTargets(c) ==
  IF impl = "single" THEN SelectSeq(store[c], IsNeedToBook)
  ELSE IF FindNeedToBookCalendar(calendars) = NoCalendar THEN <<>>
  ELSE store[FindNeedToBookCalendar(calendars).id]

\* The events the handler searches for candidates.
RECURSIVE OrdinaryEvents(_)
OrdinaryEvents(cals) ==
  IF cals = <<>> THEN <<>>
  ELSE IF TitleMatches(Head(cals).summary) THEN OrdinaryEvents(Tail(cals))
  ELSE store[Head(cals).id] \o OrdinaryEvents(Tail(cals))

ServedPool(c) == IF impl = "single" THEN store[c] ELSE OrdinaryEvents(calendars)

\* The first event of the pool the handler would look up for the target.
RECURSIVE FirstCandidate(_, _)
FirstCandidate(pool, target) ==
  IF pool = <<>> THEN <<>>
  ELSE IF /\ IF impl = "single" THEN ~SingleSkips(Head(pool), target)
                                ELSE ~CrossSkips(Head(pool), target)
          /\ ~OutsideWindow(Head(pool).start, target.start)
    THEN <<[event |-> Head(pool), distance |-> FromMetres(1000)]>>
    ELSE FirstCandidate(Tail(pool), target)

\* nearbyJobsByDay as the target loop leaves it when, for every located
\* target, the lookup of its first candidate answers 1 km and the others
\* fail.
RECURSIVE ServedDays(_, _, _)
ServedDays(targets, pool, byDay) ==
  IF targets = <<>> THEN byDay
  ELSE ServedDays(Tail(targets), pool,
         IF Truthy(Head(targets).location)
           THEN Aggregate(byDay, Head(targets),
                          FirstCandidate(pool, Head(targets)))
           ELSE byDay)

\* What GET /api/calendar/need-to-book?calendarId=c can answer: 401, 500, the
\* result without a Maps key, the result of a search whose lookups all
\* failed, the result of a search with one answered lookup per target; the
\* cross-calendar handler without a calendar of that name answers its
\* warning.
SearchReplies(c) ==
  {Unauthorized, FailedToFetch} \cup
  IF impl = "cross" /\ FindNeedToBookCalendar(calendars) = NoCalendar
    THEN {Result(<<>>, EmptyObject, "no-calendar")}
    ELSE {Result(ServedTargets(c), EmptyObject, "no-maps-key"),
          Result(ServedTargets(c), EmptyObject, "none"),
          Result(ServedTargets(c),
                 ServedDays(ServedTargets(c), ServedPool(c), EmptyObject),
                 "none")}

\* What GET /api/calendar/calendars can answer.
CalendarsReplies ==
  {FailedToFetchCalendars,
   [status |-> 200, calendars |-> SelectSeq(calendars, Readable)]}

\* response.ok
Ok(reply) == reply.status \in 200..299

\* One call of fetchNeedToBookEvents: the startDate and selectedCalendarId
\* its closure captured, its position, the locals of the all-calendars
\* branch, and, as history, the search requests it made, how many answered
\* ok, how it ended and whether an earlier call was still running when it
\* was issued.
Call(sel, date, overlapped) ==
  [selectedCalendarId |-> sel, startDate |-> date,
   pc |-> IF sel = "all" THEN "calendars" ELSE "single",
   calendars |-> <<>>, i |-> 0,
   allNeedToBookEvents |-> <<>>, allNearbyJobsByDay |-> EmptyObject,
   warnings |-> <<>>,
   made |-> 0, oks |-> 0, outcome |-> "pending", overlapped |-> overlapped]

Settled(r) == requests[r].pc = "settled"
InFlight == {r \in 1..Len(requests) : ~Settled(r)}

\* fetchNeedToBookEvents(): setLoading(true), then the first await.
Issue(sel, date) ==
  /\ Len(requests) < MaxRequests
  /\ requests' = Append(requests, Call(sel, date, InFlight # {}))
  /\ loading' = TRUE
  /\ UNCHANGED <<data, error, shown>>

\* useEffect(..., [session, startDate, selectedCalendarId, ...]) on mount,
\* with a session that has an access token.
Mount ==
  /\ requests = <<>>
  /\ Issue(selectedCalendarId, startDate)
  /\ UNCHANGED <<selectedCalendarId, startDate, account, handlerVars,
                 redirectVars>>

\* onChange of the date input: setStartDate, and the effect runs again.
ChangeStartDate ==
  /\ requests # <<>>
  /\ \E d \in StartDates \ {startDate} :
       /\ startDate' = d
       /\ Issue(selectedCalendarId, d)
  /\ UNCHANGED <<selectedCalendarId, account, handlerVars, redirectVars>>

\* onCalendarChange: setSelectedCalendarId, and the effect runs again.
SelectCalendar ==
  /\ requests # <<>>
  /\ \E c \in ({"all"} \cup CalendarIds) \ {selectedCalendarId} :
       /\ selectedCalendarId' = c
       /\ Issue(c, startDate)
  /\ UNCHANGED <<startDate, account, handlerVars, redirectVars>>

\* The "Try again" button, rendered while error is set.
TryAgain ==
  /\ error # NoError
  /\ Issue(selectedCalendarId, startDate)
  /\ UNCHANGED <<selectedCalendarId, startDate, account, handlerVars,
                 redirectVars>>

\* catch (err) { setError(err.message) } finally { setLoading(false) }
Throw(r, req, message) ==
  /\ requests' = [requests EXCEPT ![r] = [req EXCEPT !.pc = "settled",
                                                     !.outcome = "error"]]
  /\ error' = message
  /\ loading' = FALSE
  /\ UNCHANGED <<data, shown>>

\* setData(value), then finally { setLoading(false) }
Display(r, req, value) ==
  /\ requests' = [requests EXCEPT ![r] = [req EXCEPT !.pc = "settled",
                                                     !.outcome = "data"]]
  /\ data' = value
  /\ shown' = r
  /\ loading' = FALSE
  /\ UNCHANGED error

\* All-calendars branch: await fetch('/api/calendar/calendars'); a response
\* that is not ok throws, and so does a rejected fetch.
FetchCalendars ==
  /\ \E r \in InFlight :
       /\ requests[r].pc = "calendars"
       /\ \E reply \in CalendarsReplies \cup {Rejected} :
            IF reply = Rejected THEN Throw(r, requests[r], "Failed to fetch")
            ELSE IF ~Ok(reply)
              THEN Throw(r, requests[r], "Failed to fetch calendars list")
            ELSE /\ requests' = [requests EXCEPT ![r].pc = "calendar",
                                   ![r].calendars = reply.calendars,
                                   ![r].i = 1]
                 /\ UNCHANGED <<data, error, loading, shown>>
  /\ UNCHANGED <<selectedCalendarId, startDate, account, handlerVars,
                 redirectVars>>

\* One iteration of for (const calendar of calendars): the response is
\* merged if (response.ok); any other response is dropped, and a rejected
\* fetch is caught and logged.
FetchCalendar ==
  /\ \E r \in InFlight :
       LET req == requests[r] IN
       /\ req.pc = "calendar" /\ req.i <= Len(req.calendars)
       /\ \E reply \in SearchReplies(req.calendars[req.i].id) \cup {Rejected} :
            requests' = [requests EXCEPT ![r] =
              IF Ok(reply)
                THEN [req EXCEPT
                  !.allNeedToBookEvents = @ \o reply.needToBookEvents,
                  !.allNearbyJobsByDay = ObjectAssign(@, reply.nearbyJobsByDay),
                  !.warnings = IF reply.warning # "none"
                                 THEN Append(@, <<req.calendars[req.i].id,
                                                  reply.warning>>)
                                 ELSE @,
                  !.i = @ + 1, !.made = @ + 1, !.oks = @ + 1]
                ELSE [req EXCEPT !.i = @ + 1, !.made = @ + 1]]
  /\ UNCHANGED <<selectedCalendarId, startDate, data, error, loading, shown,
                 account, handlerVars, redirectVars>>

\* After the loop: allNeedToBookEvents.sort(by start), setData({...}).
FinishAll ==
  /\ \E r \in InFlight :
       LET req == requests[r] IN
       /\ req.pc = "calendar" /\ req.i > Len(req.calendars)
       /\ Display(r, [req EXCEPT
                        !.allNeedToBookEvents = SortByStart(@)],
                  [needToBookEvents |-> SortByStart(req.allNeedToBookEvents),
                   nearbyJobsByDay |-> req.allNearbyJobsByDay,
                   warning |-> req.warnings])
  /\ UNCHANGED <<selectedCalendarId, startDate, account, handlerVars,
                 redirectVars>>

\* Single-calendar branch: a response that is not ok throws (401 with its
\* own message, else errorData.details || errorData.error), a rejected fetch
\* throws, an ok response is displayed as it is.
FetchSingle ==
  /\ \E r \in InFlight :
       LET req == [requests[r] EXCEPT !.made = 1] IN
       /\ req.pc = "single"
       /\ \E reply \in SearchReplies(req.selectedCalendarId) \cup {Rejected} :
            IF reply = Rejected
              THEN Throw(r, req, "Failed to fetch")
            ELSE IF reply.status = 401
              THEN Throw(r, req, "Please sign out and sign in again")
            ELSE IF ~Ok(reply)
              THEN Throw(r, req, reply.error)
            ELSE Display(r, [req EXCEPT !.oks = 1],
                         [needToBookEvents |-> reply.needToBookEvents,
                          nearbyJobsByDay |-> reply.nearbyJobsByDay,
                          warning |-> reply.warning])
  /\ UNCHANGED <<selectedCalendarId, startDate, account, handlerVars,
                 redirectVars>>

\* The accounts the page is opened on.
PageSelections == {{2, 4, 5}, {2, 5, 9}}

PageInit ==
  /\ impl \in GetSearchImpls
  /\ \E sel \in PageSelections :
       \/ /\ UniqueIds(Pick(sel, "any", 1))
          /\ calendars = MergedCalendars
          /\ store = MergedStore(sel)
       \/ /\ calendars = SplitCalendars
          /\ store = SplitStore(sel)
  /\ body = NoBody
  /\ HandlerIdle
  /\ PageIdle
  /\ RedirectIdle

PageNext ==
  \/ Mount
  \/ ChangeStartDate
  \/ SelectCalendar
  \/ TryAgain
  \/ FetchCalendars
  \/ FetchCalendar
  \/ FinishAll
  \/ FetchSingle

PageSpec == PageInit /\ [][PageNext]_vars

\* ============================================ the sign-in redirect callback
\* src/src/lib/auth.ts: callbacks.redirect({ url, baseUrl }), in its two
\* versions (landing on /auth/success, landing on /calendar).  URLs are
\* sequences of characters.

\* String.prototype.startsWith.
StartsWith(s, prefix) ==
  Len(prefix) <= Len(s) /\ SubSeq(s, 1, Len(prefix)) = prefix

AuthSuccess == <<"/","a","u","t","h","/","s","u","c","c","e","s","s">>
CalendarPage == <<"/","c","a","l","e","n","d","a","r">>

\* if (url === baseUrl || url === `${baseUrl}/`) return `${baseUrl}${landing}`
\* if (url.startsWith(baseUrl)) return url
\* return baseUrl
redirect(u, base, landing) ==
  IF u = base \/ u = base \o <<"/">> THEN base \o landing
  ELSE IF StartsWith(u, base) THEN u
  ELSE base

\* The origin of an https URL, as new URL(u).origin gives it: the scheme and
\* the authority up to the first '/', '?' or '#', without the userinfo that
\* ends at the last '@'.  A string that is no absolute https URL has none.
Https == <<"h","t","t","p","s",":","/","/">>

AuthorityEnd(rest) ==
  IF \E i \in 1..Len(rest) : rest[i] \in {"/", "?", "#"}
    THEN (CHOOSE i \in 1..Len(rest) :
            /\ rest[i] \in {"/", "?", "#"}
            /\ \A j \in 1..(i - 1) : rest[j] \notin {"/", "?", "#"}) - 1
    ELSE Len(rest)

HostPort(authority) ==
  IF \E i \in 1..Len(authority) : authority[i] = "@"
    THEN SubSeq(authority,
                (CHOOSE i \in 1..Len(authority) :
                   /\ authority[i] = "@"
                   /\ \A j \in (i + 1)..Len(authority) : authority[j] # "@")
                + 1,
                Len(authority))
    ELSE authority

NoOrigin == <<>>
Origin(u) ==
  IF ~StartsWith(u, Https) THEN NoOrigin
  ELSE LET rest == SubSeq(u, Len(Https) + 1, Len(u))
       IN Https \o HostPort(SubSeq(rest, 1, AuthorityEnd(rest)))

\* The base urls the application is served under, and the urls a sign-in
\* can ask to be sent to: a base url followed by nothing, a path, a query,
\* more host labels, a port or an '@' and another host; and a relative path.
BaseUrls == {Https \o <<"a",".","i","o">>, Https \o <<"b",".","i","o">>}
UrlTails == {<<>>, <<"/">>, <<"/","x">>, <<"?","x">>, <<"#","x">>,
             AuthSuccess, CalendarPage,
             <<".","b",".","i","o">>, <<".","b",".","i","o","/","x">>,
             <<"@","b",".","i","o">>, <<"@","b",".","i","o","/","x">>,
             <<":","8","1">>, <<":","8","1","/","x">>,
             <<"x">>, <<"/","@","x">>}
RequestedUrls ==
  {b \o t : b \in BaseUrls, t \in UrlTails} \cup {<<"/","x">>}

RedirectInit ==
  /\ impl = "single"
  /\ calendars = MergedCalendars
  /\ store = MergedStore({})
  /\ body = NoBody
  /\ HandlerIdle
  /\ PageIdle
  /\ url \in RequestedUrls
  /\ baseUrl \in BaseUrls
  /\ redirectTo = <<>>

\* The callback of the first version: lands on /auth/success.
RedirectToSuccess ==
  /\ redirectTo = <<>>
  /\ redirectTo' = redirect(url, baseUrl, AuthSuccess)
  /\ UNCHANGED <<url, baseUrl, account, handlerVars, pageVars>>

\* The callback of the second version: lands on /calendar.
RedirectToCalendar ==
  /\ redirectTo = <<>>
  /\ redirectTo' = redirect(url, baseUrl, CalendarPage)
  /\ UNCHANGED <<url, baseUrl, account, handlerVars, pageVars>>

RedirectNext ==
  \/ RedirectToSuccess
  \/ RedirectToCalendar

RedirectSpec == RedirectInit /\ [][RedirectNext]_vars

\* ================================================================ claims
Range(seq) == {seq[i] : i \in 1..Len(seq)}

\* The call has ended with the regular result of a search by real distance:
\* no error, no warning.
RegularResult ==
  /\ impl \in GetSearchImpls \cup SearchImpls
  /\ pc = "done" /\ response.status = 200 /\ response.warning = "none"

\* The event as the result carries it.
ResultEvent(event) == IF impl = "cross" THEN CastEvent(event) ELSE event

\* Every candidate a response carries, with the target it is reported for.
ReturnedCandidates ==
  IF response.status # 200 \/ impl \notin GetSearchImpls \cup SearchImpls
    THEN {}
  ELSE IF impl \in SearchImpls
    THEN {[target |-> body.needToBookEvent, event |-> job.event,
           distance |-> job.distance] : job \in Range(response.nearbyJobs)}
    ELSE UNION {
           {[target |-> response.nearbyJobsByDay[day].needToBookEvent,
             event |-> job.event, distance |-> job.distance] :
              job \in Range(response.nearbyJobsByDay[day].nearbyJobs)} :
           day \in DOMAIN response.nearbyJobsByDay}

\* The targets a GET response lists.
ListedTargets ==
  IF response.status = 200 /\ impl \in GetSearchImpls
    THEN Range(response.needToBookEvents) ELSE {}

C2_NoLocationNoCandidates ==
  /\ \A c \in ReturnedCandidates : Truthy(c.target.location)
  /\ (pc = "done" /\ impl = "search" /\ session = "valid"
      /\ ~Truthy(body.needToBookEvent.location)) =>
       (response.status = 200 /\ response.nearbyJobs = <<>>)

\* ---------------------------------------------------------------------- C3
\* C3: every candidate returned, under any distance strategy, starts at
\* most 7 days from its target.
C3_CandidatesWithinWindow ==
  \A c \in ReturnedCandidates :
    AbsDiff(c.event.start, c.target.start) <= 7 * 24

\* ---------------------------------------------------------------------- C4
\* C4: no candidate returned for a target has the id of that target, in
\* every implementation.
C4_NoCandidateWithTargetId ==
  \A c \in ReturnedCandidates : c.event.id # c.target.id

\* ---------------------------------------------------------------------- C5
\* C5: no candidate returned, by any implementation, has a title that
\* contains "need to book" case-insensitively.
C5_NoMarkerTitledCandidate ==
  \A c \in ReturnedCandidates : ~TitleMatches(c.event.summary)

\* ---------------------------------------------------------------------- C6
\* C6: every candidate returned has a location that is not blank after
\* trimming, and no event with a blank location is sent to a lookup.
NonBlank(location) == Truthy(location) /\ Trim(location) # <<>>

C6_NoBlankLocation ==
  /\ \A c \in ReturnedCandidates : NonBlank(c.event.location)
  /\ \A l \in lookups : NonBlank(l.event.location)

OwnsDay(target) ==
  LET day == DayKey(target.start) IN
    day \in DOMAIN response.nearbyJobsByDay =>
      response.nearbyJobsByDay[day].needToBookEvent = target

Succeeded(l) == l.distance # Null /\ l.distance <= 20 * 3000

Pool(target) ==
  IF impl = "single" THEN Range(allEvents)
  ELSE UNION {Range(store[f.cal]) :
                f \in {g \in fetchLog :
                         g.target = target /\ g.ok /\ g.cal # "calendarList"}}

PassesFilter(event, target) ==
  IF impl = "single" THEN ~SingleSkips(event, target)
  ELSE ~CrossSkips(event, target)

LocatedTargets == {t \in ListedTargets : Truthy(t.location)}

\* C8: the GET searches compare the unrounded difference of the start
\* instants, in absolute value, with 7 days: no event further than 7 * 24 h
\* from the target, before or after it, is looked up, and every event that
\* passes the filter at 7 * 24 h or less is.
C8_UnroundedWindow ==
  impl \in {"single", "cross"} =>
    /\ \A l \in lookups : AbsDiff(l.event.start, l.target.start) <= 7 * 24
    /\ RegularResult =>
         \A t \in LocatedTargets : \A event \in Pool(t) :
           (PassesFilter(event, t)
            /\ AbsDiff(event.start, t.start) <= 7 * 24) =>
             \E l \in lookups : l.target = t /\ l.event = event

\* A result with a candidate exactly 7 * 24 h after its target, while an
\* event 7 * 24 + 1 h before that target passed the filter and was not
\* looked up.
C8_Witness ==
  /\ impl \in {"single", "cross"} /\ RegularResult
  /\ \E c \in ReturnedCandidates :
       /\ c.event.start - c.target.start = 7 * 24
       /\ \E event \in Pool(c.target) :
            /\ PassesFilter(event, c.target)
            /\ c.target.start - event.start = 7 * 24 + 1
            /\ \A l \in lookups : l.event # event

\* ---------------------------------------------------------------------- C9
\* The call ended with the result of a search by measured distance.
MeasuredResult ==
  /\ RegularResult
  /\ impl \in SearchImpls =>
       /\ mapsKey /\ Truthy(body.needToBookEvent.location)
       /\ needToBookCoords # NoCoords

LookupOwnsDay(l) == impl \in SearchImpls \/ OwnsDay(l.target)

Failed(reply) ==
  \/ reply.thrown
  \/ reply.status # "OK"
  \/ reply.elements = <<>>
  \/ reply.elements[1].status # "OK"

GeoFailed(reply) ==
  reply.thrown \/ reply.status # "OK" \/ reply.results = <<>>

\* The POST search ran with a key for a located target.
GeocodeSearch ==
  /\ impl \in SearchImpls /\ pc = "done" /\ response.status = 200
  /\ mapsKey /\ Truthy(body.needToBookEvent.location)

\* The pool of the request after the filter of the POST handlers.
FilteredPool == Range(EventsToSearch(body.needToBookEvent, body.allEvents))

\* C11 as stated: under the geocode + great-circle strategy a geocoding
\* failure of either endpoint, the target's location included, drops only
\* the candidates it concerns: every candidate of the filtered pool is still
\* geocoded, and every candidate returned was geocoded and carries its
\* great-circle distance.
C11_Original ==
  GeocodeSearch =>
    /\ \A event \in FilteredPool : \E l \in lookups : l.event = event
    /\ \A c \in ReturnedCandidates :
         \E l \in lookups :
           /\ l.event = c.event /\ ~GeoFailed(l.reply)
           /\ l.distance = c.distance

\* C11 as amended: once the target's location is geocoded, a failure to
\* geocode a candidate's location drops that candidate only: every candidate
\* of the filtered pool is geocoded whatever the earlier replies were, a
\* failed one yields no distance and is not returned, and a geocoded one
\* gets the great-circle distance to the target and is returned if and only
\* if that distance is within the threshold.  A failure to geocode the
\* target's location ends the geocoding: no candidate is geocoded and the
\* handler returns the time estimate of the whole filtered pool (the newer
\* handler with a warning).
C11_GeocodeFailure ==
  /\ (GeocodeSearch /\ needToBookCoords # NoCoords) =>
       \A event \in FilteredPool :
         \E l \in lookups :
           /\ l.event = event
           /\ \A k \in lookups : k.event = event => k = l
           /\ LET returned ==
                    [target |-> body.needToBookEvent, event |-> event,
                     distance |-> l.distance] \in ReturnedCandidates
              IN IF GeoFailed(l.reply)
                   THEN /\ l.distance = Null
                        /\ \A c \in ReturnedCandidates : c.event # event
                   ELSE /\ l.distance =
                             calculateDistance(
                               needToBookCoords.lat, needToBookCoords.lng,
                               l.reply.results[1].lat, l.reply.results[1].lng)
                        /\ returned <=> WithinThreshold(l.distance)
  /\ (GeocodeSearch /\ needToBookCoords = NoCoords) =>
       /\ lookups = {}
       /\ response.nearbyJobs =
            IF impl = "search"
              THEN performSimplifiedSearch(body.needToBookEvent,
                                           body.allEvents)
              ELSE performSimplifiedSearchOld(body.needToBookEvent,
                                              body.allEvents)
       /\ impl = "search" => response.warning = "geocoding-failed"

\* A measured result in which the geocoding of one candidate failed and a
\* candidate that comes later in the pool was geocoded and is returned.
C11_Witness ==
  /\ GeocodeSearch /\ needToBookCoords # NoCoords
  /\ \E l1, l2 \in lookups :
       /\ GeoFailed(l1.reply)
       /\ l1.event.start < l2.event.start
       /\ ~GeoFailed(l2.reply)
       /\ [target |-> body.needToBookEvent, event |-> l2.event,
           distance |-> l2.distance] \in ReturnedCandidates

\* --------------------------------------------------------------------- C12
\* The events of the calendars that are not named after the marker.
OrdinaryCalendarEvents ==
  UNION {Range(store[calendars[i].id]) :
           i \in {j \in 1..Len(calendars) :
                    ~TitleMatches(calendars[j].summary)}}

\* The events a search without geodata has at hand for its estimates: the
\* pool of the request, the fetched calendar, the ordinary calendars.
EstimatePool ==
  IF impl \in SearchImpls THEN Range(body.allEvents)
  ELSE IF impl = "single" THEN Range(allEvents)
  ELSE OrdinaryCalendarEvents

\* The targets of the call.
CallTargets ==
  IF impl \in SearchImpls THEN {body.needToBookEvent} ELSE ListedTargets

\* An ordinary located event other than the target.
Eligible(event, target) ==
  /\ event.id # target.id
  /\ NonBlank(event.location)
  /\ ~TitleMatches(event.summary)

\* The call found its events and ended without a Maps key.
NoKeyResult ==
  /\ impl \in GetSearchImpls \cup SearchImpls
  /\ pc = "done" /\ session = "valid" /\ ~mapsKey
  /\ response # FailedToFetch
  /\ impl = "cross" => needToBookCalendar # NoCalendar

\* C12: when no Maps key is configured, every search entry point answers
\* without error, carries a warning, and returns for every located target
\* the eligible events that start within two days of it, with an estimated
\* distance.
C12_NoKeyFallbackWithWarning ==
  NoKeyResult =>
    /\ response.status = 200
    /\ response.warning # "none"
    /\ \A t \in CallTargets : \A event \in EstimatePool :
         (Truthy(t.location) /\ Eligible(event, t)
          /\ AbsDiff(event.start, t.start) <= 2 * HoursPerDay) =>
           \E c \in ReturnedCandidates :
             c.target = t /\ c.event = ResultEvent(event)

\* --------------------------------------------------------------------- C13
\* The POST search answered with the time estimate: no key, or the target's
\* location could not be geocoded.
FallbackResult ==
  /\ impl \in SearchImpls /\ pc = "done" /\ response.status = 200
  /\ \/ ~mapsKey
     \/ Truthy(body.needToBookEvent.location) /\ needToBookCoords = NoCoords

\* The event is one of the candidates of the response.
Returned(event) == \E c \in ReturnedCandidates : c.event = event

\* C13 as stated: under the time-proximity fallback a candidate of the
\* filtered pool is kept if and only if it starts within 2 days of the
\* target.
C13_Original ==
  FallbackResult =>
    \A event \in FilteredPool :
      Returned(event) <=>
        AbsDiff(event.start, body.needToBookEvent.start) <= 2 * HoursPerDay

\* C13 as amended: under the time-proximity fallback a candidate of the
\* filtered pool is kept if and only if it starts at most 7 days (7 * 24 h,
\* unrounded, inclusive) from the target, the same window as the general
\* search; nothing outside the filtered pool is kept.
C13_FallbackWindowSevenDays ==
  FallbackResult =>
    /\ \A event \in FilteredPool :
         Returned(event) <=>
           AbsDiff(event.start, body.needToBookEvent.start)
             <= 7 * HoursPerDay
    /\ \A c \in ReturnedCandidates : c.event \in FilteredPool

\* A fallback result that keeps a candidate exactly 7 days after the target
\* and leaves out one 7 days and 1 hour before it.
C13_Witness ==
  /\ FallbackResult
  /\ \E event \in FilteredPool :
       /\ event.start - body.needToBookEvent.start = 7 * HoursPerDay
       /\ Returned(event)
  /\ \E event \in FilteredPool :
       /\ body.needToBookEvent.start - event.start = 7 * HoursPerDay + 1
       /\ ~Returned(event)

\* --------------------------------------------------------------------- C14
\* The kilometres per day of gap the handler's estimate uses.
KmPerDayOf(handler) ==
  IF handler = "search" THEN EstimateKmPerDay ELSE EstimateKmPerDayOld

\* C14: under the time-proximity fallback every candidate kept carries the
\* distance max(floor, gap in days * kilometres per day) for its gap to the
\* target, so no candidate, one at the target's own instant included, has a
\* distance below the floor of 0.1 km.
C14_EstimateIsGapTimesRateWithFloor ==
  FallbackResult =>
    \A c \in ReturnedCandidates :
      /\ c.distance >= FromMetres(EstimateFloorMetres)
      /\ c.distance =
           Max(FromMetres(EstimateFloorMetres),
               (AbsDiff(c.event.start, c.target.start)
                  * FromKm(KmPerDayOf(impl))) \div HoursPerDay)

\* --------------------------------------------------------------------- C15
\* C15: under the time-proximity fallback the 20 km threshold is not
\* applied: no distance is measured, every candidate of the filtered pool
\* inside the 7-day window is kept, also when its estimate exceeds 20 km,
\* and no candidate outside the window is kept, however small its estimate.
C15_FallbackIgnoresThreshold ==
  FallbackResult =>
    /\ lookups = {}
    /\ \A event \in FilteredPool :
         LET gap == AbsDiff(event.start, body.needToBookEvent.start) IN
           IF gap <= 7 * HoursPerDay
             THEN \E c \in ReturnedCandidates :
                    /\ c.event = event
                    /\ gap * KmPerDayOf(impl) > ThresholdKm * HoursPerDay
                         => ~WithinThreshold(c.distance)
             ELSE ~Returned(event)

\* A fallback result with a candidate whose estimate exceeds 20 km.
C15_Witness ==
  /\ FallbackResult
  /\ \E c \in ReturnedCandidates : c.distance > FromKm(ThresholdKm)

\* --------------------------------------------------------------------- C16
\* Every entry of a day map has at least one candidate, each with a measured
\* distance within the threshold.
NoEmptyEntry(byDay) ==
  \A day \in DOMAIN byDay :
    /\ Len(byDay[day].nearbyJobs) > 0
    /\ \A job \in Range(byDay[day].nearbyJobs) :
         job.distance # Null /\ WithinThreshold(job.distance)

\* Some candidate looked up for the target survived the threshold.
HasSurvivor(target) ==
  \E l \in lookups : l.target = target /\ Succeeded(l)

\* C16: at every point of a GET search and in its response, every day key
\* of nearbyJobsByDay has an entry with at least one candidate within the
\* threshold; in the result a day key is present if and only if a target of
\* that day has a surviving candidate, so a target without survivors adds
\* no key.
C16_OnlyDaysWithCandidates ==
  impl \in GetSearchImpls =>
    /\ NoEmptyEntry(nearbyJobsByDay)
    /\ response.status = 200 => NoEmptyEntry(response.nearbyJobsByDay)
    /\ RegularResult =>
         \A t \in ListedTargets :
           DayKey(t.start) \in DOMAIN response.nearbyJobsByDay
             <=> \E u \in LocatedTargets :
                   DayKey(u.start) = DayKey(t.start) /\ HasSurvivor(u)

\* A result for a located target whose candidates were looked up and none
\* survived: its day has no key.
C16_Witness ==
  /\ impl \in GetSearchImpls /\ RegularResult
  /\ \E t \in LocatedTargets :
       /\ \E l \in lookups : l.target = t
       /\ ~HasSurvivor(t)
       /\ DayKey(t.start) \notin DOMAIN response.nearbyJobsByDay

\* --------------------------------------------------------------------- C17
RECURSIVE EventsInOrder(_)
\* The events of the calendars from index i on, calendar after calendar.
EventsInOrder(i) ==
  IF i > Len(calendars) THEN <<>>
  ELSE store[calendars[i].id] \o EventsInOrder(i + 1)

\* The order in which a call comes across the events: the pool of the
\* request, the fetched calendar, the calendars in the order of the list.
DiscoverySeq ==
  IF impl \in SearchImpls THEN body.allEvents
  ELSE IF impl = "single" THEN allEvents
  ELSE EventsInOrder(1)

Position(event) ==
  CHOOSE i \in 1..Len(DiscoverySeq) : ResultEvent(DiscoverySeq[i]) = event

\* The candidate lists of the response.
ResultLists ==
  IF response.status # 200 \/ impl \notin GetSearchImpls \cup SearchImpls
    THEN {}
  ELSE IF impl \in SearchImpls THEN {response.nearbyJobs}
  ELSE {response.nearbyJobsByDay[day].nearbyJobs :
          day \in DOMAIN response.nearbyJobsByDay}

\* C17: every candidate list of a response is in ascending order of
\* distance, and candidates of equal distance are in the order in which
\* the call came across them.
C17_SortedAndStable ==
  \A list \in ResultLists :
    \A i, j \in 1..Len(list) :
      i < j =>
        /\ list[i].distance <= list[j].distance
        /\ list[i].distance = list[j].distance =>
             Position(list[i].event) < Position(list[j].event)

\* A response with two candidates of equal distance in one list.
C17_Witness ==
  \E list \in ResultLists :
    \E i, j \in 1..Len(list) :
      i < j /\ list[i].distance = list[j].distance

\* --------------------------------------------------------------------- C18
\* C18: in every GET response each entry of nearbyJobsByDay sits under the
\* day of its own target's start, its target is a listed target, and every
\* candidate of the entry was looked up for that target, whatever the day
\* on which the candidate itself starts.
C18_GroupedByTargetDay ==
  (response.status = 200 /\ impl \in GetSearchImpls) =>
    \A day \in DOMAIN response.nearbyJobsByDay :
      LET entry == response.nearbyJobsByDay[day] IN
        /\ entry.needToBookEvent \in ListedTargets
        /\ day = DayKey(entry.needToBookEvent.start)
        /\ \A job \in Range(entry.nearbyJobs) :
             \E l \in lookups :
               /\ l.target = entry.needToBookEvent
               /\ ResultEvent(l.event) = job.event
               /\ l.distance = job.distance

\* A result with a candidate that starts on another day than its target
\* and is listed under the target's day, while its own day has no key.
C18_Witness ==
  /\ impl \in GetSearchImpls /\ RegularResult
  /\ \E day \in DOMAIN response.nearbyJobsByDay :
       \E job \in Range(response.nearbyJobsByDay[day].nearbyJobs) :
         /\ DayKey(job.event.start) # day
         /\ DayKey(job.event.start) \notin DOMAIN response.nearbyJobsByDay

\* --------------------------------------------------------------------- C19
\* A call to the event source (calendar list or event list) failed.
SourceFailed == \E f \in fetchLog : ~f.ok

\* C19: a call ends with an error result if and only if the caller is not
\* authenticated or a call to the event source failed, for the target
\* calendar or for a candidate calendar; a missing key, a failed lookup or
\* geocoding and a target without location never end in an error.
C19_ErrorIffUnauthenticatedOrSourceFailed ==
  (pc = "done" /\ impl \in GetSearchImpls \cup SearchImpls) =>
    (response.status # 200 <=> (session # "valid" \/ SourceFailed))

\* --------------------------------------------------------------------- C20
\* Nothing has been asked of the event source, the geocoder or the distance
\* matrix, and nothing has been read or computed.
NothingDone ==
  /\ fetchLog = {} /\ lookups = {}
  /\ needToBookCoords = NoCoords
  /\ allEvents = <<>> /\ needToBookEvents = <<>>
  /\ nearbyEvents = <<>> /\ nearbyJobs = <<>>
  /\ nearbyJobsByDay = EmptyObject

SomeLookupFailed == \E l \in lookups : l.distance = Null

\* C21: a search call in which some lookups failed, and no call to the
\* event source did, ends with a valid result (status 200, only candidates
\* whose lookup succeeded) and that result carries a warning.
C21_PartialResultCarriesWarning ==
  (/\ impl \in GetSearchImpls \cup SearchImpls
   /\ pc = "done" /\ session = "valid" /\ ~SourceFailed
   /\ SomeLookupFailed) =>
    /\ response.status = 200
    /\ \A c \in ReturnedCandidates :
         \E l \in lookups :
           /\ l.target = c.target /\ ResultEvent(l.event) = c.event
           /\ l.distance = c.distance /\ l.distance # Null
    /\ response.warning # "none"

\* --------------------------------------------------------------------- C22
\* The answers of the distance service (or geocoder) that left a candidate
\* of the target within the threshold, as the result carries them.
Survivors(target) ==
  {[event |-> ResultEvent(l.event), distance |-> l.distance] :
     l \in {k \in lookups : k.target = target /\ Succeeded(k)}}

\* The list holds exactly the given jobs, each once, in ascending order of
\* distance and, at equal distance, in the order of discovery.
IsRankingOf(list, jobs) ==
  /\ Len(list) = Cardinality(jobs)
  /\ {[event |-> list[i].event, distance |-> list[i].distance] :
        i \in 1..Len(list)} = jobs
  /\ \A i, j \in 1..Len(list) :
       i < j =>
         \/ list[i].distance < list[j].distance
         \/ /\ list[i].distance = list[j].distance
            /\ Position(list[i].event) < Position(list[j].event)

\* The index of the last target of the day that has a survivor.
LastWithSurvivor(targets, day) ==
  CHOOSE i \in 1..Len(targets) :
    /\ DayKey(targets[i].start) = day
    /\ Truthy(targets[i].location) /\ Survivors(targets[i]) # {}
    /\ \A j \in 1..Len(targets) :
         (/\ DayKey(targets[j].start) = day
          /\ Truthy(targets[j].location) /\ Survivors(targets[j]) # {})
           => j <= i

\* C22: the result of a search by measured distance is a function of the
\* events read and of the answers of the external services: the day keys
\* are the days of the located targets with a surviving answer, the entry
\* of a day belongs to the last such target of the list, its candidates are
\* exactly that target's surviving answers in the one order fixed by
\* distance and discovery; the list of the POST search is fixed the same
\* way.  Two runs with the same events and the same answers therefore give
\* the same keys, the same candidates and the same order.
C22_ResultDeterminedByInputs ==
  /\ (RegularResult /\ impl \in GetSearchImpls) =>
       LET targets == response.needToBookEvents
           byDay == response.nearbyJobsByDay
       IN /\ DOMAIN byDay =
               {DayKey(t.start) : t \in {u \in LocatedTargets :
                                           Survivors(u) # {}}}
          /\ \A day \in DOMAIN byDay :
               LET t == targets[LastWithSurvivor(targets, day)] IN
                 /\ byDay[day].needToBookEvent = t
                 /\ IsRankingOf(byDay[day].nearbyJobs, Survivors(t))
  /\ (MeasuredResult /\ impl \in SearchImpls) =>
       IsRankingOf(response.nearbyJobs, Survivors(body.needToBookEvent))

\* A result in which two targets of one day both have surviving candidates.
C22_Witness ==
  /\ RegularResult /\ impl \in GetSearchImpls
  /\ \E t, u \in LocatedTargets :
       /\ t # u /\ DayKey(t.start) = DayKey(u.start)
       /\ Survivors(t) # {} /\ Survivors(u) # {}

\* --------------------------------------------------------------------- C23
\* The events the handler takes as targets: the events of the requested
\* calendar whose title carries the marker (single-calendar), the events of
\* the calendar found by name (cross-calendar).
ClassifiedTargets ==
  IF impl = "single"
    THEN {event \in Range(store[calendarIdParam]) :
            TitleMatches(event.summary)}
    ELSE Range(store[needToBookCalendar.id])

\* How many times the event occurs in the list.
Occurrences(list, event) ==
  Cardinality({i \in 1..Len(list) : list[i] = event})

\* The call found its targets: it answered 200 and, across calendars, the
\* calendar of the jobs to book exists.
TargetsFound ==
  /\ impl \in GetSearchImpls /\ response.status = 200
  /\ impl = "cross" => response.warning # "no-calendar"

\* C23: the targets list of a GET response holds every target of the call
\* exactly once and nothing else, whether or not the target has a location
\* or a surviving candidate; a target without location or without survivor
\* has no entry of its own in nearbyJobsByDay.
C23_EveryTargetListedOnce ==
  TargetsFound =>
    /\ \A t \in ClassifiedTargets :
         Occurrences(response.needToBookEvents, t) = 1
    /\ Range(response.needToBookEvents) \subseteq ClassifiedTargets
    /\ \A t \in ClassifiedTargets :
         (~Truthy(t.location) \/ Survivors(t) = {}) =>
           \A day \in DOMAIN response.nearbyJobsByDay :
             response.nearbyJobsByDay[day].needToBookEvent # t

\* A result that lists a located target and a target without location and
\* has no opportunity at all.
C23_Witness ==
  /\ TargetsFound /\ RegularResult
  /\ response.nearbyJobsByDay = EmptyObject
  /\ \E t, u \in Range(response.needToBookEvents) :
       Truthy(t.location) /\ ~Truthy(u.location)

\* --------------------------------------------------------------------- C25
\* C25: every located target with at least one surviving candidate has an
\* entry of its own in the result, with its own candidates, also when
\* several targets start on the same day.
C25_NoTargetLostInAggregation ==
  (RegularResult /\ impl \in GetSearchImpls) =>
    \A t \in LocatedTargets :
      Survivors(t) # {} =>
        \E day \in DOMAIN response.nearbyJobsByDay :
          /\ response.nearbyJobsByDay[day].needToBookEvent = t
          /\ IsRankingOf(response.nearbyJobsByDay[day].nearbyJobs,
                         Survivors(t))

\* --------------------------------------------------------------------- C26
\* The candidate's distance is the one a lookup of the call measured.
Measured(c) ==
  \E l \in lookups :
    /\ l.target = c.target /\ ResultEvent(l.event) = c.event
    /\ l.distance # Null /\ l.distance = c.distance

\* The estimate the handler's fallback gives for the whole pool.
WholePoolEstimate ==
  IF impl = "search"
    THEN performSimplifiedSearch(body.needToBookEvent, body.allEvents)
    ELSE performSimplifiedSearchOld(body.needToBookEvent, body.allEvents)

\* C26: the distances of one result come from one strategy.  A GET result
\* holds measured distances only.  A POST result is either the fallback's
\* estimate of the whole filtered pool, made without a single lookup, or a
\* list of measured distances; estimated and measured distances are never
\* in one result.
C26_SingleStrategyPerResult ==
  /\ (impl \in GetSearchImpls /\ response.status = 200) =>
       \A c \in ReturnedCandidates : Measured(c)
  /\ (impl \in SearchImpls /\ pc = "done" /\ response.status = 200) =>
       IF FallbackResult
         THEN lookups = {} /\ response.nearbyJobs = WholePoolEstimate
         ELSE \A c \in ReturnedCandidates : Measured(c)

\* A fallback result with two estimated candidates, given although a key
\* is configured: the target's location could not be geocoded.
C26_Witness ==
  /\ FallbackResult /\ mapsKey
  /\ Len(response.nearbyJobs) = 2
  /\ lookups = {}


\* ---------------------------------------------------------------- C24
\* The search requests of a call all failed: it made at least one and none
\* answered ok.
EverySearchFailed(r) == requests[r].made > 0 /\ requests[r].oks = 0

\* C24: a call of fetchNeedToBookEvents whose search requests all failed
\* (response not ok, or fetch rejected) ends by setting the error, in the
\* single-calendar and in the all-calendars mode; it never ends by
\* displaying a result.
C24_FailedSearchEndsInError ==
  \A r \in 1..Len(requests) :
    Settled(r) /\ EverySearchFailed(r) => requests[r].outcome = "error"

\* ---------------------------------------------------------------- C27
\* C27: in the all-calendars mode the merged needToBookEvents on display
\* holds each target id at most once.
C27_MergedTargetsUnique ==
  \A r \in 1..Len(requests) :
    Settled(r) /\ requests[r].selectedCalendarId = "all"
               /\ requests[r].outcome = "data" =>
      UniqueIds(requests[r].allNeedToBookEvents)

\* ---------------------------------------------------------------- C28
AllSettled == requests # <<>> /\ InFlight = {}

\* C28: once every call has settled, if the call issued last displayed a
\* result, the data on display is that result: no earlier call's setData ran
\* after it.
C28_LatestResponseDisplayed ==
  AllSettled /\ requests[Len(requests)].outcome = "data" =>
    shown = Len(requests)

\* ---------------------------------------------------------------- C29
\* C29: when a call that failed is followed by a call, issued after it had
\* settled, that displays a result, the error is cleared.
C29_ErrorClearedBySuccess ==
  \A r \in 2..Len(requests) :
    /\ AllSettled
    /\ r = Len(requests)
    /\ ~requests[r].overlapped
    /\ requests[r - 1].outcome = "error"
    /\ requests[r].outcome = "data"
    => error = NoError


\* ---------------------------------------------------------------- C30
\* C30: what the redirect callback returns is baseUrl, baseUrl followed by
\* /auth/success or /calendar, or a url whose origin is the origin of
\* baseUrl; a url of another host that begins with the characters of baseUrl
\* is not returned.
C30_RedirectStaysOnOrigin ==
  redirectTo # <<>> =>
    \/ redirectTo \in {baseUrl, baseUrl \o AuthSuccess,
                       baseUrl \o CalendarPage}
    \/ Origin(redirectTo) = Origin(baseUrl)

=============================================================================
